---- MODULE Spec2Model ----
(***************************************************************************)
(* Model of the chat client component App (src/frontend/src/App.jsx).      *)
(*                                                                         *)
(* The state is the component's React state and refs; every action is one  *)
(* event handler of the component (a DOM handler or a socket.io listener), *)
(* taken as a whole: React runs one handler at a time, commits the state   *)
(* it set and runs the effects the commit triggers before the next one.    *)
(*                                                                         *)
(* A handler can be invoked when the element that carries it is rendered   *)
(* (conditional rendering in the JSX decides that); the `disabled`         *)
(* attribute only stops React from dispatching mouse events to a button,   *)
(* so it guards onClick handlers of disabled buttons and nothing else.     *)
(*                                                                         *)
(* Strings the user types are sequences of characters.  Wire timestamps    *)
(* are date strings, one of them a string that Date cannot parse.          *)
(***************************************************************************)
EXTENDS Integers, Sequences, FiniteSets, TLC

(* ---------------------------- bounds ----------------------------------- *)

MaxCompose == 1

MaxHistory == 3

MaxTimeline == 3

MaxEmitted == 2

(* ---------------------------- values ----------------------------------- *)

Emoji == "e"

Malformed == "not a date"

(* the date strings Date parses, with their time values (in days) *)
TimeValue == ("2024-01-01" :> 1) @@ ("2024-01-02" :> 2)

(* what the user types into a text input: nothing, blanks, a word, a word  *)
(* between blanks                                                          *)
Typed == {<<>>, <<" ">>, <<"a">>, <<" ", "a", " ">>}

Timestamps == DOMAIN TimeValue \cup {Malformed}

Texts == {<<"a">>, <<"a", "a">>}

(* the messages a server payload is drawn from: one per timestamp, and a   *)
(* second one, of another text, at the first instant                       *)
Message ==
  {m \in [user : {<<"a">>}, text : Texts, timestamp : Timestamps] :
     m.text = <<"a">> \/ m.timestamp = "2024-01-01"}

(* what reading a property the payload lacks gives *)
Undefined == <<"undefined">>

(* a new_message payload without text *)
Bodiless == [user |-> <<"a">>, text |-> Undefined, timestamp |-> "2024-01-01"]

(* an initial_messages payload without messages *)
Listless == [count |-> 0]

RECURSIVE SeqsUpTo(_, _)
SeqsUpTo(S, n) ==
  IF n = 0 THEN {<<>>}
  ELSE LET shorter == SeqsUpTo(S, n - 1)
       IN shorter \cup {Append(s, x) : s \in shorter, x \in S}

Histories == SeqsUpTo(Message, MaxHistory)

(* alert() texts of the component *)
NoAlert == "none"

AlertEmptyUsername == "Username cannot be empty."

AlertEmptyMessage == "Message cannot be empty."

AlertChatCleared == "Chat history has been cleared by another user."

AlertClearError == "Error clearing chat"

NoArg == <<>>

(* ----------------------- String.prototype.trim ------------------------- *)

RECURSIVE trimStart(_)
trimStart(s) ==
  IF s = <<>> THEN s
  ELSE IF Head(s) = " " THEN trimStart(Tail(s)) ELSE s

RECURSIVE trimEnd(_)
trimEnd(s) ==
  IF s = <<>> THEN s
  ELSE IF s[Len(s)] = " " THEN trimEnd(SubSeq(s, 1, Len(s) - 1)) ELSE s

trim(s) == trimEnd(trimStart(s))

(* JavaScript truthiness of a string: the empty string is falsy *)
Truthy(s) == s # <<>>

(* ------------------ Date, subtraction and Array sort ------------------- *)

NaN == [nan |-> TRUE, v |-> 0]

Num(n) == [nan |-> FALSE, v |-> n]

(* new Date(timestamp) coerced to a number: the time value, or NaN *)
DateValue(ts) == IF ts \in DOMAIN TimeValue THEN Num(TimeValue[ts]) ELSE NaN

(* the comparator (a, b) => new Date(a.timestamp) - new Date(b.timestamp) *)
comparator(a, b) ==
  LET x == DateValue(a.timestamp)
      y == DateValue(b.timestamp)
  IN IF x.nan \/ y.nan THEN NaN ELSE Num(x.v - y.v)

(* Array.prototype.sort calls the comparator and reads NaN as +0 *)
SortCompare(a, b) ==
  LET r == comparator(a, b) IN IF r.nan THEN 0 ELSE r.v

Range(s) == {s[i] : i \in 1..Len(s)}

(* the comparator is a consistent comparison function for the elements *)
Consistent(S) ==
  /\ \A a \in S : SortCompare(a, a) = 0
  /\ \A a, b \in S : (SortCompare(a, b) = 0) => (SortCompare(b, a) = 0)
  /\ \A a, b \in S : (SortCompare(a, b) < 0) => (SortCompare(b, a) > 0)
  /\ \A a, b, c \in S :
       /\ (SortCompare(a, b) = 0 /\ SortCompare(b, c) = 0) => SortCompare(a, c) = 0
       /\ (SortCompare(a, b) < 0 /\ SortCompare(b, c) < 0) => SortCompare(a, c) < 0
       /\ (SortCompare(a, b) > 0 /\ SortCompare(b, c) > 0) => SortCompare(a, c) > 0

Perms(n) == {p \in [1..n -> 1..n] : \A i, j \in 1..n : i # j => p[i] # p[j]}

Permute(s, p) == [i \in 1..Len(s) |-> s[p[i]]]

(* p orders s by the comparator and keeps equal elements in their order *)
StableOrder(s, p) ==
  \A i, j \in 1..Len(s) :
    i < j => \/ SortCompare(s[p[i]], s[p[j]]) < 0
             \/ SortCompare(s[p[i]], s[p[j]]) = 0 /\ p[i] < p[j]

(* the arrays data.messages.sort(comparator) can return: the stable sort   *)
(* when the comparator is consistent, an implementation-defined order of   *)
(* the same elements when it is not                                        *)
sort(s) ==
  IF Consistent(Range(s))
  THEN {Permute(s, p) : p \in {q \in Perms(Len(s)) : StableOrder(s, q)}}
  ELSE {Permute(s, p) : p \in Perms(Len(s))}

(* sort, tabulated once for the histories of the model *)
sorted == [h \in Histories |-> sort(h)]

(* ----------------------------- state ----------------------------------- *)

VARIABLES
  messages,         \* useState([]): the rendered list of messages
  messageInput,     \* useState(''): the compose buffer
  username,         \* useState(''): the confirmed name
  tempUsername,     \* useState(''): the draft name
  usernameSet,      \* useState(false)
  showClearConfirm, \* useState(false)
  showEmojiPicker,  \* useState(false)
  socket,           \* socketRef.current: "null" or the socket's state
  everHydrated,     \* observation: setMessages(sortedMessages) has run
  mounted,          \* the component is mounted
  emitted,          \* the socket.emit calls made so far, in order
  alerted,          \* the text the last handler passed to alert(), or NoAlert
  last              \* the step taken last, and the payload it was given

vars == <<messages, messageInput, username, tempUsername, usernameSet,
          showClearConfirm, showEmojiPicker, socket, mounted, emitted,
          alerted, last, everHydrated>>

Ran(op, arg) == [op |-> op, arg |-> arg]

(* the state after construction of the earlier revision, whose effect    *)
(* called io() on mount, before any username                               *)
Init_connectsOnMount ==
  /\ messages = <<>>
  /\ messageInput = <<>>
  /\ username = <<>>
  /\ tempUsername = <<>>
  /\ usernameSet = FALSE
  /\ showClearConfirm = FALSE
  /\ showEmojiPicker = FALSE
  /\ socket = "connecting"
  /\ mounted = TRUE
  /\ emitted = <<>>
  /\ alerted = NoAlert
  /\ last = [op |-> "init", arg |-> <<>>]
  /\ everHydrated = FALSE

Init ==
  /\ messages = <<>>
  /\ messageInput = <<>>
  /\ username = <<>>
  /\ tempUsername = <<>>
  /\ usernameSet = FALSE
  /\ showClearConfirm = FALSE
  /\ showEmojiPicker = FALSE
  /\ socket = "null"
  /\ mounted = TRUE
  /\ emitted = <<>>
  /\ alerted = NoAlert
  /\ last = Ran("init", NoArg)
  /\ everHydrated = FALSE

(* a socket.emit(event, data) call *)
Wire(event, user, text) == [event |-> event, user |-> user, text |-> text]

(* ------------------------- DOM event handlers -------------------------- *)

(* setTempUsername, had the name form stayed on the page and written the  *)
(* name itself                                                             *)
setTempUsername_renames(value) ==
  /\ mounted
  /\ tempUsername' = value
  /\ username' = value
  /\ alerted' = NoAlert
  /\ last' = Ran("setTempUsername", NoArg)
  /\ UNCHANGED <<messages, messageInput, usernameSet,
                 showClearConfirm, showEmojiPicker, socket, mounted, emitted>>
  /\ UNCHANGED everHydrated

(* onChange of the username input, rendered while !usernameSet *)
setTempUsername(value) ==
  /\ mounted /\ ~usernameSet
  /\ tempUsername' = value
  /\ alerted' = NoAlert
  /\ last' = Ran("setTempUsername", NoArg)
  /\ UNCHANGED <<messages, messageInput, username, usernameSet,
                 showClearConfirm, showEmojiPicker, socket, mounted, emitted>>
  /\ UNCHANGED everHydrated

(* handleSetUsername, had it stored the draft as typed *)
handleSetUsername_untrimmed ==
  /\ mounted /\ ~usernameSet
  /\ IF Truthy(trim(tempUsername))
     THEN /\ username' = tempUsername
          /\ usernameSet' = TRUE
          /\ socket' = "connecting"
          /\ alerted' = NoAlert
     ELSE /\ alerted' = AlertEmptyUsername
          /\ UNCHANGED <<username, usernameSet, socket>>
  /\ last' = Ran("handleSetUsername", NoArg)
  /\ UNCHANGED <<messages, messageInput, tempUsername, showClearConfirm,
                 showEmojiPicker, mounted, emitted>>
  /\ UNCHANGED everHydrated

(* onSubmit of the username form, rendered while !usernameSet; setting     *)
(* usernameSet re-runs the effect, which calls io() and stores the socket  *)
handleSetUsername ==
  /\ mounted /\ ~usernameSet
  /\ IF Truthy(trim(tempUsername))
     THEN /\ username' = trim(tempUsername)
          /\ usernameSet' = TRUE
          /\ socket' = "connecting"
          /\ alerted' = NoAlert
     ELSE /\ alerted' = AlertEmptyUsername
          /\ UNCHANGED <<username, usernameSet, socket>>
  /\ last' = Ran("handleSetUsername", NoArg)
  /\ UNCHANGED <<messages, messageInput, tempUsername, showClearConfirm,
                 showEmojiPicker, mounted, emitted>>
  /\ UNCHANGED everHydrated

(* onChange of the message input *)
setMessageInput(value) ==
  /\ mounted
  /\ messageInput' = value
  /\ alerted' = NoAlert
  /\ last' = Ran("setMessageInput", NoArg)
  /\ UNCHANGED <<messages, username, tempUsername, usernameSet,
                 showClearConfirm, showEmojiPicker, socket, mounted, emitted>>
  /\ UNCHANGED everHydrated

(* sendMessage, had it tested the compose buffer without trimming it *)
sendMessage_untrimmed(ecap) ==
  /\ mounted
  /\ IF Truthy(messageInput) /\ socket # "null" /\ Truthy(trim(username))
     THEN /\ Len(emitted) < ecap
          /\ emitted' = Append(emitted,
                          Wire("message", trim(username), trim(messageInput)))
          /\ messageInput' = <<>>
          /\ showEmojiPicker' = FALSE
          /\ alerted' = NoAlert
     ELSE IF ~Truthy(messageInput)
     THEN /\ alerted' = AlertEmptyMessage
          /\ UNCHANGED <<emitted, messageInput, showEmojiPicker>>
     ELSE /\ alerted' = NoAlert
          /\ UNCHANGED <<emitted, messageInput, showEmojiPicker>>
  /\ last' = Ran("sendMessage", NoArg)
  /\ UNCHANGED <<messages, username, tempUsername, usernameSet,
                 showClearConfirm, socket, mounted>>
  /\ UNCHANGED everHydrated

(* sendMessage, had it sent the compose buffer as typed and kept it *)
sendMessage_raw(ecap) ==
  /\ mounted
  /\ IF Truthy(trim(messageInput)) /\ socket # "null" /\ Truthy(trim(username))
     THEN /\ Len(emitted) < ecap
          /\ emitted' = Append(emitted,
                          Wire("message", trim(username), messageInput))
          /\ showEmojiPicker' = FALSE
          /\ alerted' = NoAlert
          /\ UNCHANGED messageInput
     ELSE IF ~Truthy(trim(messageInput))
     THEN /\ alerted' = AlertEmptyMessage
          /\ UNCHANGED <<emitted, messageInput, showEmojiPicker>>
     ELSE /\ alerted' = NoAlert
          /\ UNCHANGED <<emitted, messageInput, showEmojiPicker>>
  /\ last' = Ran("sendMessage", NoArg)
  /\ UNCHANGED <<messages, username, tempUsername, usernameSet,
                 showClearConfirm, socket, mounted>>
  /\ UNCHANGED everHydrated

(* sendMessage, had it shown the message at once instead of waiting for   *)
(* the server to send it back                                              *)
sendMessage_optimistic(ecap) ==
  /\ mounted
  /\ IF Truthy(trim(messageInput)) /\ socket # "null" /\ Truthy(trim(username))
     THEN /\ Len(emitted) < ecap
          /\ emitted' = Append(emitted,
                          Wire("message", trim(username), trim(messageInput)))
          /\ messages' = Append(messages,
                           [user |-> trim(username), text |-> trim(messageInput),
                            timestamp |-> "2024-01-02"])
          /\ messageInput' = <<>>
          /\ showEmojiPicker' = FALSE
          /\ alerted' = NoAlert
     ELSE IF ~Truthy(trim(messageInput))
     THEN /\ alerted' = AlertEmptyMessage
          /\ UNCHANGED <<emitted, messageInput, showEmojiPicker, messages>>
     ELSE /\ alerted' = NoAlert
          /\ UNCHANGED <<emitted, messageInput, showEmojiPicker, messages>>
  /\ last' = Ran("sendMessage", NoArg)
  /\ UNCHANGED <<username, tempUsername, usernameSet,
                 showClearConfirm, socket, mounted>>
  /\ UNCHANGED everHydrated

(* sendMessage, had it tested the compose buffer only, not the socket nor *)
(* the username                                                            *)
sendMessage_unguarded(ecap) ==
  /\ mounted
  /\ IF Truthy(trim(messageInput))
     THEN /\ Len(emitted) < ecap
          /\ emitted' = Append(emitted,
                          Wire("message", trim(username), trim(messageInput)))
          /\ messageInput' = <<>>
          /\ showEmojiPicker' = FALSE
          /\ alerted' = NoAlert
     ELSE /\ alerted' = AlertEmptyMessage
          /\ UNCHANGED <<emitted, messageInput, showEmojiPicker>>
  /\ last' = Ran("sendMessage", NoArg)
  /\ UNCHANGED <<messages, username, tempUsername, usernameSet,
                 showClearConfirm, socket, mounted>>
  /\ UNCHANGED everHydrated

(* onSubmit of the message form *)
sendMessage(ecap) ==
  /\ mounted
  /\ IF Truthy(trim(messageInput)) /\ socket # "null" /\ Truthy(trim(username))
     THEN /\ Len(emitted) < ecap
          /\ emitted' = Append(emitted,
                          Wire("message", trim(username), trim(messageInput)))
          /\ messageInput' = <<>>
          /\ showEmojiPicker' = FALSE
          /\ alerted' = NoAlert
     ELSE IF ~Truthy(trim(messageInput))
     THEN /\ alerted' = AlertEmptyMessage
          /\ UNCHANGED <<emitted, messageInput, showEmojiPicker>>
     ELSE /\ alerted' = NoAlert
          /\ UNCHANGED <<emitted, messageInput, showEmojiPicker>>
  /\ last' = Ran("sendMessage", NoArg)
  /\ UNCHANGED <<messages, username, tempUsername, usernameSet,
                 showClearConfirm, socket, mounted>>
  /\ UNCHANGED everHydrated

(* onClick of the emoji button, a button disabled while !usernameSet *)
toggleEmojiPicker ==
  /\ mounted /\ usernameSet
  /\ showEmojiPicker' = ~showEmojiPicker
  /\ alerted' = NoAlert
  /\ last' = Ran("toggleEmojiPicker", NoArg)
  /\ UNCHANGED <<messages, messageInput, username, tempUsername, usernameSet,
                 showClearConfirm, socket, mounted, emitted>>
  /\ UNCHANGED everHydrated

(* onEmojiClick of the picker, rendered while showEmojiPicker *)
onEmojiClick(lcap) ==
  /\ mounted /\ showEmojiPicker
  /\ Len(messageInput) < lcap
  /\ messageInput' = Append(messageInput, Emoji)
  /\ showEmojiPicker' = FALSE
  /\ alerted' = NoAlert
  /\ last' = Ran("onEmojiClick", NoArg)
  /\ UNCHANGED <<messages, username, tempUsername, usernameSet,
                 showClearConfirm, socket, mounted, emitted>>
  /\ UNCHANGED everHydrated

(* onClick of the Clear Chat button, rendered while usernameSet *)
initiateClearChat ==
  /\ mounted /\ usernameSet
  /\ showClearConfirm' = TRUE
  /\ alerted' = NoAlert
  /\ last' = Ran("initiateClearChat", NoArg)
  /\ UNCHANGED <<messages, messageInput, username, tempUsername, usernameSet,
                 showEmojiPicker, socket, mounted, emitted>>
  /\ UNCHANGED everHydrated

(* confirmClearChat, had it emptied the list without waiting for the server *)
confirmClearChat_clears(ecap) ==
  /\ mounted /\ showClearConfirm
  /\ IF socket # "null"
     THEN /\ Len(emitted) < ecap
          /\ emitted' = Append(emitted, Wire("clear_chat", <<>>, <<>>))
     ELSE UNCHANGED emitted
  /\ messages' = <<>>
  /\ showClearConfirm' = FALSE
  /\ alerted' = NoAlert
  /\ last' = Ran("confirmClearChat", NoArg)
  /\ UNCHANGED <<messageInput, username, tempUsername, usernameSet,
                 showEmojiPicker, socket, mounted>>
  /\ UNCHANGED everHydrated

(* confirmClearChat, had it left the modal open *)
confirmClearChat_keepsModal(ecap) ==
  /\ mounted /\ showClearConfirm
  /\ IF socket # "null"
     THEN /\ Len(emitted) < ecap
          /\ emitted' = Append(emitted, Wire("clear_chat", <<>>, <<>>))
     ELSE UNCHANGED emitted
  /\ alerted' = NoAlert
  /\ last' = Ran("confirmClearChat", NoArg)
  /\ UNCHANGED <<messages, messageInput, username, tempUsername, usernameSet,
                 showClearConfirm, showEmojiPicker, socket, mounted>>
  /\ UNCHANGED everHydrated

(* onClick of Clear All in the modal, rendered while showClearConfirm *)
confirmClearChat(ecap) ==
  /\ mounted /\ showClearConfirm
  /\ IF socket # "null"
     THEN /\ Len(emitted) < ecap
          /\ emitted' = Append(emitted, Wire("clear_chat", <<>>, <<>>))
     ELSE UNCHANGED emitted
  /\ showClearConfirm' = FALSE
  /\ alerted' = NoAlert
  /\ last' = Ran("confirmClearChat", NoArg)
  /\ UNCHANGED <<messages, messageInput, username, tempUsername, usernameSet,
                 showEmojiPicker, socket, mounted>>
  /\ UNCHANGED everHydrated

(* cancelClearChat, had it emitted clear_chat as confirmClearChat does *)
cancelClearChat_emits ==
  /\ mounted /\ showClearConfirm
  /\ emitted' = Append(emitted, Wire("clear_chat", <<>>, <<>>))
  /\ showClearConfirm' = FALSE
  /\ alerted' = NoAlert
  /\ last' = Ran("cancelClearChat", NoArg)
  /\ UNCHANGED <<messages, messageInput, username, tempUsername, usernameSet,
                 showEmojiPicker, socket, mounted>>
  /\ UNCHANGED everHydrated

(* onClick of Cancel in the modal, rendered while showClearConfirm *)
cancelClearChat ==
  /\ mounted /\ showClearConfirm
  /\ showClearConfirm' = FALSE
  /\ alerted' = NoAlert
  /\ last' = Ran("cancelClearChat", NoArg)
  /\ UNCHANGED <<messages, messageInput, username, tempUsername, usernameSet,
                 showEmojiPicker, socket, mounted, emitted>>
  /\ UNCHANGED everHydrated

(* unmount, had the cleanup left a pending reconnection timer running *)
unmount_keepsRetry ==
  /\ mounted
  /\ mounted' = FALSE
  /\ socket' = IF usernameSet /\ socket \notin {"null", "reconnecting"}
               THEN "closed" ELSE socket
  /\ alerted' = NoAlert
  /\ last' = Ran("unmount", NoArg)
  /\ UNCHANGED <<messages, messageInput, username, tempUsername, usernameSet,
                 showClearConfirm, showEmojiPicker, emitted>>
  /\ UNCHANGED everHydrated

(* unmount, had the effect returned no cleanup *)
unmount_leavesOpen ==
  /\ mounted
  /\ mounted' = FALSE
  /\ alerted' = NoAlert
  /\ last' = Ran("unmount", NoArg)
  /\ UNCHANGED <<messages, messageInput, username, tempUsername, usernameSet,
                 showClearConfirm, showEmojiPicker, socket, emitted>>
  /\ UNCHANGED everHydrated

(* unmount: the effect's cleanup runs if the effect registered one, which  *)
(* it did only when it ran with usernameSet                                *)
unmount ==
  /\ mounted
  /\ mounted' = FALSE
  /\ socket' = IF usernameSet /\ socket # "null" THEN "closed" ELSE socket
  /\ alerted' = NoAlert
  /\ last' = Ran("unmount", NoArg)
  /\ UNCHANGED <<messages, messageInput, username, tempUsername, usernameSet,
                 showClearConfirm, showEmojiPicker, emitted>>
  /\ UNCHANGED everHydrated

(* ------------------------ socket.io listeners -------------------------- *)

(* connect, had the listener announced the user on the first connection only *)
connect_firstOnly(ecap) ==
  /\ socket = "connecting"
  /\ Len(emitted) < ecap
  /\ socket' = "connected"
  /\ emitted' = IF \E i \in 1..Len(emitted) : emitted[i].event = "user_joined"
                THEN emitted
                ELSE Append(emitted, Wire("user_joined", username, <<>>))
  /\ alerted' = NoAlert
  /\ last' = Ran("connect", NoArg)
  /\ UNCHANGED <<messages, messageInput, username, tempUsername, usernameSet,
                 showClearConfirm, showEmojiPicker, mounted>>
  /\ UNCHANGED everHydrated

(* 'connect': the transport is up; the listener announces the user *)
connect(ecap) ==
  /\ socket = "connecting"
  /\ Len(emitted) < ecap
  /\ socket' = "connected"
  /\ emitted' = Append(emitted, Wire("user_joined", username, <<>>))
  /\ alerted' = NoAlert
  /\ last' = Ran("connect", NoArg)
  /\ UNCHANGED <<messages, messageInput, username, tempUsername, usernameSet,
                 showClearConfirm, showEmojiPicker, mounted>>
  /\ UNCHANGED everHydrated

(* 'disconnect': the transport was lost; the listener only logs and the    *)
(* socket.io manager schedules a reconnection                              *)
disconnect ==
  /\ socket = "connected"
  /\ socket' = "reconnecting"
  /\ alerted' = NoAlert
  /\ last' = Ran("disconnect", NoArg)
  /\ UNCHANGED <<messages, messageInput, username, tempUsername, usernameSet,
                 showClearConfirm, showEmojiPicker, mounted, emitted>>
  /\ UNCHANGED everHydrated

(* 'connect_error': the attempt failed; no listener is registered for it  *)
(* and the manager schedules the next attempt                              *)
connect_error ==
  /\ socket = "connecting"
  /\ socket' = "reconnecting"
  /\ alerted' = NoAlert
  /\ last' = Ran("connect_error", NoArg)
  /\ UNCHANGED <<messages, messageInput, username, tempUsername, usernameSet,
                 showClearConfirm, showEmojiPicker, mounted, emitted>>
  /\ UNCHANGED everHydrated

(* reconnect, had the socket counted as connected as soon as the timer fired *)
reconnect_skips ==
  /\ socket = "reconnecting"
  /\ socket' = "connected"
  /\ alerted' = NoAlert
  /\ last' = Ran("reconnect", NoArg)
  /\ UNCHANGED <<messages, messageInput, username, tempUsername, usernameSet,
                 showClearConfirm, showEmojiPicker, mounted, emitted>>
  /\ UNCHANGED everHydrated

(* the manager's backoff timer fires and it opens the transport again *)
reconnect ==
  /\ socket = "reconnecting"
  /\ socket' = "connecting"
  /\ alerted' = NoAlert
  /\ last' = Ran("reconnect", NoArg)
  /\ UNCHANGED <<messages, messageInput, username, tempUsername, usernameSet,
                 showClearConfirm, showEmojiPicker, mounted, emitted>>
  /\ UNCHANGED everHydrated

(* initial_messages, had it added the sorted history to the list *)
initial_messages_merges(data) ==
  /\ socket = "connected"
  /\ messages' \in {messages \o s : s \in sorted[data.messages]}
  /\ alerted' = NoAlert
  /\ last' = Ran("initial_messages", data.messages)
  /\ everHydrated' = TRUE
  /\ UNCHANGED <<messageInput, username, tempUsername, usernameSet,
                 showClearConfirm, showEmojiPicker, socket, mounted, emitted>>

(* 'initial_messages': sorts data.messages in place and shows the result; *)
(* of a payload without messages, data.messages is undefined and calling   *)
(* its sort throws a TypeError before setMessages is reached               *)
initial_messages(data) ==
  /\ socket = "connected"
  /\ IF "messages" \in DOMAIN data
     THEN /\ messages' \in sorted[data.messages]
          /\ last' = Ran("initial_messages", data.messages)
          /\ everHydrated' = TRUE
     ELSE /\ messages' = messages
          /\ last' = Ran("initial_messages TypeError", NoArg)
          /\ UNCHANGED everHydrated
  /\ alerted' = NoAlert
  /\ UNCHANGED <<messageInput, username, tempUsername, usernameSet,
                 showClearConfirm, showEmojiPicker, socket, mounted, emitted>>

(* new_message, had it added to the list the effect saw when it ran, the  *)
(* empty one, instead of using the updater's prevMessages                  *)
new_message_stale(message, tcap) ==
  /\ socket = "connected"
  /\ Len(messages) < tcap
  /\ messages' = <<message>>
  /\ alerted' = NoAlert
  /\ last' = Ran("new_message", <<message>>)
  /\ UNCHANGED <<messageInput, username, tempUsername, usernameSet,
                 showClearConfirm, showEmojiPicker, socket, mounted, emitted>>
  /\ UNCHANGED everHydrated

(* new_message, had it put the message first *)
new_message_prepends(message, tcap) ==
  /\ socket = "connected"
  /\ Len(messages) < tcap
  /\ messages' = <<message>> \o messages
  /\ alerted' = NoAlert
  /\ last' = Ran("new_message", <<message>>)
  /\ UNCHANGED <<messageInput, username, tempUsername, usernameSet,
                 showClearConfirm, showEmojiPicker, socket, mounted, emitted>>
  /\ UNCHANGED everHydrated

(* 'new_message': appends the message to the list *)
new_message(message, tcap) ==
  /\ socket = "connected"
  /\ Len(messages) < tcap
  /\ messages' = Append(messages, message)
  /\ alerted' = NoAlert
  /\ last' = Ran("new_message", <<message>>)
  /\ UNCHANGED <<messageInput, username, tempUsername, usernameSet,
                 showClearConfirm, showEmojiPicker, socket, mounted, emitted>>
  /\ UNCHANGED everHydrated

(* chat_cleared, had it told the user and kept the list *)
chat_cleared_keeps ==
  /\ socket = "connected"
  /\ alerted' = AlertChatCleared
  /\ last' = Ran("chat_cleared", NoArg)
  /\ UNCHANGED <<messages, messageInput, username, tempUsername, usernameSet,
                 showClearConfirm, showEmojiPicker, socket, mounted, emitted>>
  /\ UNCHANGED everHydrated

(* 'chat_cleared': empties the list and tells the user *)
chat_cleared ==
  /\ socket = "connected"
  /\ messages' = <<>>
  /\ alerted' = AlertChatCleared
  /\ last' = Ran("chat_cleared", NoArg)
  /\ UNCHANGED <<messageInput, username, tempUsername, usernameSet,
                 showClearConfirm, showEmojiPicker, socket, mounted, emitted>>
  /\ UNCHANGED everHydrated

(* the events a listener is registered for, and two the server may send   *)
(* that none is registered for                                             *)
Listened ==
  {"connect", "disconnect", "initial_messages", "new_message", "chat_cleared",
   "clear_chat_error"}

Unlistened == {"message", "user_left"}

(* an unlistened event, had a catch-all listener handled it as a clearing *)
unlistened_caught(event) ==
  /\ socket = "connected"
  /\ event \notin Listened
  /\ messages' = <<>>
  /\ alerted' = AlertChatCleared
  /\ last' = Ran(event, NoArg)
  /\ UNCHANGED <<messageInput, username, tempUsername, usernameSet,
                 showClearConfirm, showEmojiPicker, socket, mounted, emitted>>
  /\ UNCHANGED everHydrated

(* an event no socket.on was called for: socket.io finds no listener and   *)
(* no code of the component runs                                           *)
unlistened(event) ==
  /\ socket = "connected"
  /\ event \notin Listened
  /\ alerted' = NoAlert
  /\ last' = Ran(event, NoArg)
  /\ UNCHANGED <<messages, messageInput, username, tempUsername, usernameSet,
                 showClearConfirm, showEmojiPicker, socket, mounted, emitted>>
  /\ UNCHANGED everHydrated

(* clear_chat_error, had it handled the refusal like a clearing *)
clear_chat_error_clears ==
  /\ socket = "connected"
  /\ messages' = <<>>
  /\ alerted' = AlertClearError
  /\ last' = Ran("clear_chat_error", NoArg)
  /\ UNCHANGED <<messageInput, username, tempUsername, usernameSet,
                 showClearConfirm, showEmojiPicker, socket, mounted, emitted>>
  /\ UNCHANGED everHydrated

(* 'clear_chat_error': tells the user *)
clear_chat_error ==
  /\ socket = "connected"
  /\ alerted' = AlertClearError
  /\ last' = Ran("clear_chat_error", NoArg)
  /\ UNCHANGED <<messages, messageInput, username, tempUsername, usernameSet,
                 showClearConfirm, showEmojiPicker, socket, mounted, emitted>>
  /\ UNCHANGED everHydrated

(* --------------------------- specifications ---------------------------- *)

(* the handlers, with draft names, compose buffers, histories and live     *)
(* messages drawn from the given sets and the list, the emit log and the   *)
(* compose buffer capped at tcap, ecap and lcap                            *)
Step(names, inputs, hists, msgs, tcap, ecap, lcap) ==
  \/ \E value \in names : setTempUsername(value)
  \/ handleSetUsername
  \/ \E value \in inputs : setMessageInput(value)
  \/ sendMessage(ecap)
  \/ toggleEmojiPicker
  \/ onEmojiClick(lcap)
  \/ initiateClearChat
  \/ confirmClearChat(ecap)
  \/ cancelClearChat
  \/ unmount
  \/ connect(ecap)
  \/ disconnect
  \/ connect_error
  \/ reconnect
  \/ \E h \in hists : initial_messages([messages |-> h])
  \/ initial_messages(Listless)
  \/ \E message \in msgs : new_message(message, tcap)
  \/ chat_cleared
  \/ clear_chat_error
  \/ \E event \in Unlistened : unlistened(event)

(* the session: every handler, with short histories *)
FewMessages == {m \in Message : m.text = <<"a">> /\ m.timestamp # Malformed}

Next ==
  Step(Typed, Typed, SeqsUpTo(FewMessages, 1), FewMessages \cup {Bodiless}, 1,
       MaxEmitted, MaxCompose)

Spec == Init /\ [][Next]_vars

(* the timeline: the connection and every wire event, with every history; *)
(* the handlers of the compose form and of the clear dialog are left out   *)
NextTimeline ==
  \/ \E value \in {<<"a">>} : setTempUsername(value)
  \/ handleSetUsername
  \/ unmount
  \/ connect(MaxEmitted)
  \/ disconnect
  \/ connect_error
  \/ reconnect
  \/ \E h \in Histories : initial_messages([messages |-> h])
  \/ \E message \in Message : new_message(message, MaxTimeline)
  \/ chat_cleared
  \/ clear_chat_error

SpecTimeline == Init /\ [][NextTimeline]_vars

(* the events of one session in every order: the connection and the three  *)
(* events that change the message list, with histories of at most two      *)
(* messages                                                                *)
ShortHistories == SeqsUpTo(Message, 2)

NextEvents ==
  \/ \E value \in {<<"a">>} : setTempUsername(value)
  \/ handleSetUsername
  \/ unmount
  \/ connect(MaxEmitted)
  \/ disconnect
  \/ reconnect
  \/ \E h \in ShortHistories : initial_messages([messages |-> h])
  \/ \E message \in Message : new_message(message, MaxTimeline)
  \/ chat_cleared

SpecEvents == Init /\ [][NextEvents]_vars

(* ------------------------ notions of the claims ------------------------ *)

(* every character of s is white space *)
Blank(s) == \A i \in 1..Len(s) : s[i] = " "

(* t is s without its leading and trailing white space *)
IsTrimOf(t, s) ==
  /\ t = <<>> \/ (t[1] # " " /\ t[Len(t)] # " ")
  /\ \E i \in 0..Len(s) :
       /\ i + Len(t) <= Len(s)
       /\ \A k \in 1..Len(s) :
            IF k > i /\ k <= i + Len(t) THEN s[k] = t[k - i] ELSE s[k] = " "

Parses(m) == m.timestamp \in DOMAIN TimeValue

(* sentAt as an ordering key: a timestamp that does not parse is the latest *)
Latest == 1 + Cardinality(DOMAIN TimeValue)

sentAt(m) == IF Parses(m) THEN TimeValue[m.timestamp] ELSE Latest

Count(s, m) == Cardinality({i \in 1..Len(s) : s[i] = m})

(* t holds exactly the messages of h, each as often as h does *)
SameMessages(t, h) ==
  /\ Len(t) = Len(h)
  /\ \A m \in Range(t) \cup Range(h) : Count(t, m) = Count(h, m)

(* t is h in ascending sentAt order, equal sentAt in the order of h *)
StableAscending(t, h) ==
  /\ Len(t) = Len(h)
  /\ \E p \in Perms(Len(h)) :
       /\ \A i \in 1..Len(h) : t[i] = h[p[i]]
       /\ \A i, j \in 1..Len(h) :
            i < j => \/ sentAt(t[i]) < sentAt(t[j])
                     \/ sentAt(t[i]) = sentAt(t[j]) /\ p[i] < p[j]

Hydrated == last.op = "initial_messages"

(* ------------------------------ claims --------------------------------- *)

(* C1: after the initial_messages listener has run on a history, the list  *)
(* holds exactly the messages of that history in ascending sentAt order,   *)
(* messages of equal sentAt in the order the server sent them.  "Every     *)
(* history" includes one with a timestamp that does not parse (C2), which  *)
(* the specification orders last.                                          *)
C1_HydrateSortedStable ==
  Hydrated => SameMessages(messages, last.arg) /\ StableAscending(messages, last.arg)

(* C1, for the histories whose timestamps all parse: this part holds *)
C1_HydrateSortedStableWhenParsed ==
  (Hydrated /\ \A m \in Range(last.arg) : Parses(m))
    => SameMessages(messages, last.arg) /\ StableAscending(messages, last.arg)

(* C2: after the initial_messages listener has run, no message whose       *)
(* timestamp does not parse stands before one whose timestamp parses, and  *)
(* the messages whose timestamps parse are in ascending sentAt order.      *)
C2_MalformedSortedLast ==
  Hydrated =>
    \A i, j \in 1..Len(messages) :
      i < j =>
        /\ ~(~Parses(messages[i]) /\ Parses(messages[j]))
        /\ (Parses(messages[i]) /\ Parses(messages[j]))
             => sentAt(messages[i]) <= sentAt(messages[j])

(* C3: a new_message step keeps every entry the list held at its position  *)
(* and puts the new message last: the list grows by exactly one element.   *)
C3_AppendKeepsOrder ==
  [][last'.op = "new_message" =>
       /\ Len(messages') = Len(messages) + 1
       /\ \A i \in 1..Len(messages) : messages'[i] = messages[i]
       /\ messages'[Len(messages')] = last'.arg[1]]_vars

(* a hydrated list of two, then a live message of an earlier sentAt: it     *)
(* stands last, behind the later ones                                      *)
C3_Witness ==
  /\ last.op = "new_message"
  /\ Len(messages) = 3
  /\ sentAt(messages[1]) < sentAt(messages[2])
  /\ sentAt(messages[3]) < sentAt(messages[2])

(* C4: after the initial_messages listener has run, the list holds the     *)
(* messages of the payload and nothing else, whatever it held before.      *)
C4_HydrateReplaces == Hydrated => SameMessages(messages, last.arg)

(* a history sent again after a reconnection, shorter than the list was *)
C4_Witness ==
  /\ Hydrated
  /\ Len(messages) = 1
  /\ Len(emitted) = 2 /\ emitted[2].event = "user_joined"

(* C5: after the chat_cleared listener has run, the list is empty and the  *)
(* user has been told; so it is after a second chat_cleared.               *)
C5_ClearedEmptiesAndNotifies ==
  last.op = "chat_cleared" => messages = <<>> /\ alerted = AlertChatCleared

C5_Witness ==
  last.op = "chat_cleared" /\ messages = <<>> /\ alerted = AlertChatCleared

C7_CancelClearEmitsNothing ==
  [][/\ last'.op = "initiateClearChat" =>
          /\ showClearConfirm'
          /\ emitted' = emitted
          /\ messages' = messages /\ messageInput' = messageInput
     /\ last'.op = "cancelClearChat" =>
          /\ ~showClearConfirm'
          /\ emitted' = emitted
          /\ messages' = messages /\ messageInput' = messageInput]_vars

C7_Witness ==
  /\ last.op = "cancelClearChat"
  /\ ~showClearConfirm
  /\ \A i \in 1..Len(emitted) : emitted[i].event # "clear_chat"
  /\ messages # <<>> /\ messageInput # <<>>

(* C8: after handleSetUsername has run on a draft that is blank, the user  *)
(* has been told that the name is empty, no name is set and no socket      *)
(* exists; after it has run on any other draft, the name is the draft      *)
(* without its leading and trailing white space, usernameSet holds and the *)
(* socket is connecting.                                                   *)
C8_ConfirmIdentity ==
  last.op = "handleSetUsername" =>
    IF Blank(tempUsername)
    THEN /\ alerted = AlertEmptyUsername
         /\ ~usernameSet /\ username = <<>> /\ socket = "null"
    ELSE /\ alerted = NoAlert
         /\ usernameSet /\ IsTrimOf(username, tempUsername)
         /\ socket = "connecting"

C8_Witness ==
  /\ last.op = "handleSetUsername"
  /\ tempUsername = <<" ", "a", " ">>
  /\ username = <<"a">> /\ usernameSet /\ socket = "connecting"

(* C9: after sendMessage has run without a confirmed name, a failure has   *)
(* been reported to the user and nothing has been emitted.  (The claim     *)
(* names the failure NoIdentity; the formula asks for any report at all.)  *)
C9_SendAnonymousReported ==
  (last.op = "sendMessage" /\ ~usernameSet) =>
    alerted # NoAlert /\ emitted = <<>>

(* C10: a sendMessage step on a blank compose buffer tells the user that   *)
(* the message is empty, emits nothing and leaves the compose buffer, the  *)
(* list and the name as they were.                                         *)
C10_SendEmptyRejected ==
  [][(last'.op = "sendMessage" /\ Blank(messageInput)) =>
       /\ alerted' = AlertEmptyMessage
       /\ emitted' = emitted
       /\ messageInput' = messageInput
       /\ messages' = messages
       /\ username' = username /\ usernameSet' = usernameSet]_vars

(* a buffer of white space only, in a session with a name and a list *)
C10_Witness ==
  /\ last.op = "sendMessage"
  /\ alerted = AlertEmptyMessage
  /\ messageInput = <<" ">>
  /\ usernameSet /\ messages # <<>>

(* C11: a sendMessage run once the username is set, on a compose buffer    *)
(* that is not blank, emits exactly one event: a "message" whose user is   *)
(* the confirmed username and whose text is the buffer trimmed; the        *)
(* compose buffer is empty afterwards.                                     *)
C11_SendEmitsTrimmed ==
  [][(last'.op = "sendMessage" /\ usernameSet /\ ~Blank(messageInput))
       => /\ Len(emitted') = Len(emitted) + 1
          /\ \A i \in 1..Len(emitted) : emitted'[i] = emitted[i]
          /\ emitted'[Len(emitted')].event = "message"
          /\ emitted'[Len(emitted')].user = username
          /\ IsTrimOf(emitted'[Len(emitted')].text, messageInput)
          /\ messageInput' = <<>>]_vars

(* a message has just been sent and the compose buffer is empty *)
C11_Witness ==
  /\ last.op = "sendMessage"
  /\ usernameSet
  /\ emitted # <<>>
  /\ emitted[Len(emitted)] = Wire("message", username, <<"a">>)
  /\ messageInput = <<>>

(* C12: sendMessage never changes the message list: what was sent is shown *)
(* only once the new_message listener has run for it, and one run of that  *)
(* listener adds the message it was given exactly once.                    *)
C12_SendLeavesTimeline ==
  [][/\ last'.op = "sendMessage" => messages' = messages
     /\ last'.op = "new_message"
          => /\ Len(messages') = Len(messages) + 1
             /\ Count(messages', last'.arg[1]) = Count(messages, last'.arg[1]) + 1]_vars

(* a message has been sent and the message list does not show it *)
C12_Witness ==
  /\ last.op = "sendMessage"
  /\ emitted # <<>>
  /\ emitted[Len(emitted)].event = "message"
  /\ \A i \in 1..Len(messages) : messages[i].text # emitted[Len(emitted)].text

(* the connection state of the session: that of the socket.io socket the   *)
(* effect stored in socketRef                                              *)
connectionState ==
  CASE socket = "connecting" -> "connecting"
    [] socket = "connected" -> "connected"
    [] OTHER -> "disconnected"

IoCalled == last'.op = "handleSetUsername" /\ usernameSet' /\ ~usernameSet

(* C14: there is no socket while no username is set, and io() is called    *)
(* only while socketRef holds no live socket (none yet, or a closed one),  *)
(* so that at most one connection is open at any time.                     *)
C14_OneConnection ==
  [][/\ ~usernameSet' => socket' = "null"
     /\ IoCalled => socket \in {"null", "closed"} /\ socket' = "connecting"]_vars

(* the one connection of the session has just been opened *)
C14_Witness ==
  /\ last.op = "handleSetUsername"
  /\ usernameSet
  /\ socket = "connecting"

(* C15: once the cleanup has called disconnect() the socket makes no       *)
(* attempt to connect again, whatever it was doing when it was closed: no  *)
(* reconnect and no connect step follows, and the socket is never again    *)
(* connecting or connected.                                                *)
C15_NoReconnectAfterClose ==
  [][/\ (~mounted' /\ usernameSet') => socket' = "closed"
     /\ (~mounted /\ usernameSet)
          => last'.op \notin {"reconnect", "connect", "connect_error"}]_vars

(* the cleanup has closed a socket that had been connected *)
C15_Witness ==
  /\ ~mounted
  /\ socket = "closed"
  /\ last.op = "unmount"
  /\ emitted # <<>>

(* C16: every step that connects the socket, the first and each one after  *)
(* a loss, emits exactly one event, "user_joined" with the confirmed       *)
(* username; the client emits nothing but user_joined, message and         *)
(* clear_chat, so it never asks for the history itself.                    *)
C16_JoinOnEveryConnect ==
  [][/\ (socket # "connected" /\ socket' = "connected")
          => emitted' = Append(emitted, Wire("user_joined", username, <<>>))
     /\ \A i \in 1..Len(emitted') :
          emitted'[i].event \in {"user_joined", "message", "clear_chat"}]_vars

(* the socket has connected again after a loss and announced the user again *)
C16_Witness ==
  /\ last.op = "connect"
  /\ usernameSet
  /\ emitted = <<Wire("user_joined", username, <<>>),
                 Wire("user_joined", username, <<>>)>>

(* C17: the step that ends a session with a username set leaves its socket *)
(* closed, and after the end no step changes whether the component is      *)
(* mounted, the username, the socket, the events emitted or the message    *)
(* list.                                                                   *)
C17_TerminatedIsFinal ==
  [][/\ (mounted /\ usernameSet /\ ~mounted') => socket' = "closed"
     /\ ~mounted => UNCHANGED <<mounted, usernameSet, username, socket,
                                emitted, messages>>]_vars

(* a session that showed messages has ended and its socket is closed *)
C17_Witness ==
  /\ ~mounted
  /\ usernameSet
  /\ socket = "closed"
  /\ messages # <<>>

(* the step handled an event whose payload lacks a required field *)
MalformedReceived ==
  \/ last'.op = "new_message" /\ last'.arg[1].text = Undefined
  \/ last'.op = "initial_messages TypeError"

(* C18: the step that handles a new_message without text, or an            *)
(* initial_messages without messages, changes neither the message list nor *)
(* any other state of the session.                                         *)
C18_MalformedDropped ==
  [][MalformedReceived
       => UNCHANGED <<messages, messageInput, username, tempUsername,
                      usernameSet, showClearConfirm, showEmojiPicker, socket,
                      mounted, emitted>>]_vars

(* C18, for the initial_messages payload without messages: this part holds *)
C18_ListlessDropped ==
  [][last'.op = "initial_messages TypeError"
       => UNCHANGED <<messages, messageInput, username, tempUsername,
                      usernameSet, showClearConfirm, showEmojiPicker, socket,
                      mounted, emitted>>]_vars

(* C19: the step that handles clear_chat_error shows the error to the user *)
(* and changes nothing else: the message list, the username, the compose   *)
(* buffer and the open confirmation dialog stay as they were, and nothing  *)
(* is emitted.                                                             *)
C19_ClearErrorOnlyReports ==
  [][last'.op = "clear_chat_error"
       => /\ alerted' = AlertClearError
          /\ UNCHANGED <<messages, username, usernameSet, messageInput,
                         showClearConfirm, emitted>>]_vars

(* the error was shown over a message list, a typed message and an open    *)
(* confirmation dialog                                                     *)
C19_Witness ==
  /\ last.op = "clear_chat_error"
  /\ alerted = AlertClearError
  /\ messages # <<>>
  /\ ~Blank(messageInput)
  /\ showClearConfirm

(* C20: the step that receives an event no listener is registered for runs *)
(* no handler: nothing is shown to the user and no state changes.  The     *)
(* step that receives one of the four server events has the effect of the  *)
(* one listener of that name and of no other: new_message adds one entry,  *)
(* chat_cleared empties the list and says so, clear_chat_error reports and *)
(* leaves the list, initial_messages shows the history it was given.       *)
C20_UnknownIgnored ==
  [][/\ last'.op \in Unlistened
          => /\ alerted' = NoAlert
             /\ UNCHANGED <<messages, messageInput, username, tempUsername,
                            usernameSet, showClearConfirm, showEmojiPicker,
                            socket, mounted, emitted>>
     /\ last'.op = "new_message"
          => Len(messages') = Len(messages) + 1 /\ alerted' = NoAlert
     /\ last'.op = "chat_cleared"
          => messages' = <<>> /\ alerted' = AlertChatCleared
     /\ last'.op = "clear_chat_error"
          => messages' = messages /\ alerted' = AlertClearError
     /\ last'.op = "initial_messages"
          => SameMessages(messages', last'.arg) /\ alerted' = NoAlert]_vars

(* an event without a listener has arrived over a message list *)
C20_Witness ==
  /\ last.op \in Unlistened
  /\ socket = "connected"
  /\ messages # <<>>
  /\ alerted = NoAlert

(* C21: a session shows a history once: the initial_messages listener      *)
(* never replaces the message list a second time, not even when the        *)
(* socket has lost its transport and connected again.                      *)
C21_HydratedOnce ==
  [][last'.op = "initial_messages" => ~everHydrated]_vars

(* the number of clear_chat events in a log of emitted events *)
Clears(s) == Cardinality({i \in 1..Len(s) : s[i].event = "clear_chat"})

(* C22: clear_chat is emitted by confirmClearChat only, one per run, while *)
(* the confirmation is open, and the run closes it; the confirmation is    *)
(* opened by initiateClearChat only and is closed after cancelClearChat    *)
(* and after confirmClearChat, so every clear_chat follows an              *)
(* initiateClearChat with neither of the two in between.                   *)
C22_ClearOnlyWhenConfirmed ==
  [][/\ Clears(emitted') # Clears(emitted)
          => /\ last'.op = "confirmClearChat"
             /\ showClearConfirm
             /\ Clears(emitted') = Clears(emitted) + 1
     /\ last'.op \in {"confirmClearChat", "cancelClearChat"} => ~showClearConfirm'
     /\ (showClearConfirm' /\ ~showClearConfirm) => last'.op = "initiateClearChat"]_vars

(* clear_chat has just been emitted and the confirmation is closed *)
C22_Witness ==
  /\ last.op = "confirmClearChat"
  /\ emitted # <<>>
  /\ emitted[Len(emitted)].event = "clear_chat"
  /\ ~showClearConfirm

C24_IdentityFixed ==
  [][/\ usernameSet'
          => /\ username' # <<>>
             /\ username'[1] # " " /\ username'[Len(username')] # " "
     /\ (~usernameSet /\ usernameSet')
          => last'.op = "handleSetUsername" /\ IsTrimOf(username', tempUsername)
     /\ usernameSet => usernameSet' /\ username' = username]_vars

(* the name set from a padded draft is still there after later steps *)
C24_Witness ==
  /\ usernameSet
  /\ username = <<"a">>
  /\ tempUsername = <<" ", "a", " ">>
  /\ last.op = "sendMessage"
  /\ emitted # <<>>

(* C25: while no username is set nothing has been emitted: no user_joined, *)
(* no message and no clear_chat, whatever the user has done.               *)
C25_AnonymousEmitsNothing ==
  ~usernameSet => emitted = <<>>

(* a message was submitted without a username and nothing was emitted *)
C25_Witness ==
  /\ ~usernameSet
  /\ last.op = "sendMessage"
  /\ ~Blank(messageInput)
  /\ emitted = <<>>

(* t is in ascending sentAt order *)
Ascending(t) ==
  \A i, j \in 1..Len(t) : i < j => sentAt(t[i]) <= sentAt(t[j])

(* the step is not a new_message, or its message has a timestamp that      *)
(* parses and is not before that of any message in the list                *)
LivePushInOrder ==
  last'.op = "new_message"
    => /\ Parses(last'.arg[1])
       /\ \A i \in 1..Len(messages) : sentAt(messages[i]) <= sentAt(last'.arg[1])

(* C26: as long as every message that arrives by new_message has a         *)
(* timestamp that parses and is not before that of any message in the      *)
(* list, the list stays in ascending sentAt order: no step of              *)
(* initial_messages, new_message or chat_cleared takes an ordered list to  *)
(* one that is not.                                                        *)
C26_SortedUnderOrderedPushes ==
  [][(Ascending(messages) /\ LivePushInOrder) => Ascending(messages')]_vars

(* C26, for the histories whose timestamps all parse: this part holds *)
C26_SortedUnderOrderedPushesWhenParsed ==
  [][(/\ Ascending(messages)
      /\ LivePushInOrder
      /\ last'.op = "initial_messages" => \A m \in Range(last'.arg) : Parses(m))
       => Ascending(messages')]_vars

====
